---- MODULE Spec2Model ----
(***************************************************************************)
(* Model of the sports card tracker's Netlify functions: the profit        *)
(* calculator (utils/calculator.js), the calculate-profit, find-deals,     *)
(* search-cards and get-card handlers with the catalog parsing helpers     *)
(* (utils/api-client.js), and the record-sale and inventory handlers over  *)
(* the two blob stores (utils/storage.js).                                 *)
(*                                                                         *)
(* JavaScript numbers are IEEE-754 binary64 values.  The calculator does   *)
(* its fee and ROI arithmetic in that format, so the model carries a       *)
(* software implementation of the binary64 operations the code uses        *)
(* (division, multiplication, addition, Math.round), with mantissas held   *)
(* as little-endian sequences of 12-bit limbs because TLC's integers are   *)
(* 32 bits wide.  Intermediate values are handed on as operator arguments  *)
(* rather than bound by LET, so that each is named once.                   *)
(*                                                                         *)
(* Each stateless function is exercised by a specification of its own:    *)
(* the initial state holds the request (and the catalog's answer), and the *)
(* one action runs the handler and stores its response.                    *)
(*   SpecCalc   calculate-profit                                           *)
(*   SpecDeals  find-deals                                                 *)
(*   SpecCards  search-cards and get-card                                  *)
(* The handlers that use the stores run step by step, one step per await:  *)
(*   SpecStore  record-sale and inventory requests served one by one       *)
(*   SpecRace   two such requests served concurrently                      *)
(***************************************************************************)
EXTENDS Integers, Sequences, FiniteSets, TLC

VARIABLES
  calcReq,    \* the event delivered to the calculate-profit function
  calcResp,   \* its response ([statusCode |-> 0] while none was produced)
  dealsReq,   \* the event delivered to the find-deals function
  catalog,    \* what the SportsCardsPro API answers to its search
  dealsResp,  \* the find-deals response
  cardsReq,   \* the event delivered to search-cards or get-card
  cardsResp,  \* its response
  apiCalls,   \* the calls of callSportsCardsProAPI made so far
  inventory,  \* the blob 'items' of the store 'inventory'
  sales,      \* the blob 'items' of the store 'sales'
  served,     \* the number of requests received so far
  proc        \* the handlers of record-sale and inventory in flight

vars == <<calcReq, calcResp, dealsReq, catalog, dealsResp, cardsReq, cardsResp,
          apiCalls, inventory, sales, served, proc>>

storeVars == <<inventory, sales, served, proc>>

(* A JSON member that may be absent: <<>> is undefined, <<v>> is the value v *)
Undefined == <<>>
Some(v) == <<v>>

----------------------------------------------------------------------------
(* Natural numbers of arbitrary size: little-endian sequences of limbs.    *)

LimbBits == 12
MantBits == 53
DivGuardLimbs == 7

RECURSIVE Pow2(_)
Pow2(k) == IF k = 0 THEN 1 ELSE 2 * Pow2(k - 1)

Base == Pow2(LimbBits)

Abs(n) == IF n < 0 THEN 0 - n ELSE n

Zeros(n) == IF n = 0 THEN <<>> ELSE [i \in 1..n |-> 0]

Limb(a, i) == IF i <= Len(a) THEN a[i] ELSE 0

RECURSIVE BigTrim(_)
BigTrim(a) ==
  IF a = <<>> THEN a
  ELSE IF a[Len(a)] = 0 THEN BigTrim(SubSeq(a, 1, Len(a) - 1))
  ELSE a

RECURSIVE BigFromInt(_)
BigFromInt(n) ==
  IF n = 0 THEN <<>> ELSE <<n % Base>> \o BigFromInt(n \div Base)

RECURSIVE BigToInt(_)
BigToInt(a) == IF a = <<>> THEN 0 ELSE a[1] + Base * BigToInt(Tail(a))

RECURSIVE BigAddC(_, _, _, _)
BigAddC(a, b, i, c) ==
  IF i > Len(a) /\ i > Len(b)
  THEN (IF c = 0 THEN <<>> ELSE <<c>>)
  ELSE LET t == Limb(a, i) + Limb(b, i) + c
       IN  <<t % Base>> \o BigAddC(a, b, i + 1, t \div Base)

BigAdd(a, b) == BigAddC(a, b, 1, 0)

RECURSIVE BigSubC(_, _, _, _)
BigSubC(a, b, i, br) ==
  IF i > Len(a) THEN <<>>
  ELSE LET t == Limb(a, i) - Limb(b, i) - br
       IN  IF t < 0 THEN <<t + Base>> \o BigSubC(a, b, i + 1, 1)
           ELSE <<t>> \o BigSubC(a, b, i + 1, 0)

\* a - b for a >= b
BigSub(a, b) == BigTrim(BigSubC(a, b, 1, 0))

RECURSIVE BigCmpAt(_, _, _)
BigCmpAt(a, b, i) ==
  IF i = 0 THEN 0
  ELSE IF Limb(a, i) > Limb(b, i) THEN 1
  ELSE IF Limb(a, i) < Limb(b, i) THEN -1
  ELSE BigCmpAt(a, b, i - 1)

\* sign of a - b
BigCmp(a, b) == BigCmpAt(a, b, IF Len(a) > Len(b) THEN Len(a) ELSE Len(b))

RECURSIVE BigMulSmallC(_, _, _, _)
BigMulSmallC(a, k, i, c) ==
  IF i > Len(a) THEN BigFromInt(c)
  ELSE LET t == a[i] * k + c
       IN  <<t % Base>> \o BigMulSmallC(a, k, i + 1, t \div Base)

\* a * k for 0 <= k < 2^19
BigMulSmall(a, k) == BigTrim(BigMulSmallC(a, k, 1, 0))

RECURSIVE BigMulAt(_, _, _)
BigMulAt(a, b, j) ==
  IF j > Len(b) THEN <<>>
  ELSE BigAdd(Zeros(j - 1) \o BigMulSmallC(a, b[j], 1, 0), BigMulAt(a, b, j + 1))

BigMul(a, b) == BigTrim(BigMulAt(a, b, 1))

RECURSIVE BigDivSmallAt(_, _, _, _)
BigDivSmallAt(a, d, i, r) ==
  IF i = 0 THEN [q |-> <<>>, r |-> r]
  ELSE LET t    == r * Base + a[i]
           rest == BigDivSmallAt(a, d, i - 1, t % d)
       IN  [q |-> Append(rest.q, t \div d), r |-> rest.r]

\* quotient and remainder of a by d, for 0 < d < 2^19
BigDivSmall(a, d) ==
  LET res == BigDivSmallAt(a, d, Len(a), 0)
  IN  [q |-> BigTrim(res.q), r |-> res.r]

\* a limb brought down onto the remainder r in two halves of 6 bits
BigDivLow(d, t, q) == [q |-> (64 * q) + (t \div d), r |-> t % d]

BigDivHigh(limb, d, t) == BigDivLow(d, (64 * (t % d)) + (limb % 64), t \div d)

BigDivLimb(limb, d, r) == BigDivHigh(limb, d, (64 * r) + (limb \div 64))

BigDivWideRest(q, rest) == [q |-> Append(rest.q, q), r |-> rest.r]

RECURSIVE BigDivWideAt(_, _, _, _)
BigDivWideNext(a, d, i, s) == BigDivWideRest(s.q, BigDivWideAt(a, d, i - 1, s.r))

BigDivWideAt(a, d, i, r) ==
  IF i = 0 THEN [q |-> <<>>, r |-> r]
  ELSE BigDivWideNext(a, d, i, BigDivLimb(a[i], d, r))

BigDivWideTrim(res) == [q |-> BigTrim(res.q), r |-> res.r]

\* quotient and remainder of a by d, for 0 < d < 2^25
BigDivWide(a, d) == BigDivWideTrim(BigDivWideAt(a, d, Len(a), 0))

BigDiv(a, d) == IF d < 524288 THEN BigDivSmall(a, d) ELSE BigDivWide(a, d)

BigShiftLeft(a, n) ==
  BigTrim(Zeros(n \div LimbBits) \o BigMulSmallC(a, Pow2(n % LimbBits), 1, 0))

BigShiftRight(a, n) ==
  LET drop == n \div LimbBits
  IN  IF drop >= Len(a) THEN <<>>
      ELSE BigDivSmall(SubSeq(a, drop + 1, Len(a)), Pow2(n % LimbBits)).q

RECURSIVE IntBitLen(_)
IntBitLen(n) == IF n = 0 THEN 0 ELSE 1 + IntBitLen(n \div 2)

BigBitLen(a) ==
  LET t == BigTrim(a)
  IN  IF t = <<>> THEN 0 ELSE (Len(t) - 1) * LimbBits + IntBitLen(t[Len(t)])

----------------------------------------------------------------------------
(* binary64 values: sign * m * 2^e with m below 2^53 (zero is m = <<>>).   *)
(* Every operation computes the exact result and rounds it to 53           *)
(* significant bits, ties to even.  Exponent range limits (overflow,       *)
(* subnormals) are never reached by the amounts the model uses.            *)

\* q * 2^e moved to the next mantissa when the dropped bits compare as c
\* with half a unit of q (1 above, 0 equal, -1 below): ties go to even
RoundUp(q, e, c) ==
  [m |-> IF c = 1 \/ (c = 0 /\ q[1] % 2 = 1) THEN BigTrim(BigAdd(q, <<1>>)) ELSE q,
   e |-> e]

\* n * 2^x with the low sh bits of n dropped, q being n shifted right by sh
RoundShift(n, x, sh, q) ==
  RoundUp(q, x + sh,
          BigCmp(BigSub(n, BigShiftLeft(q, sh)), BigShiftLeft(<<1>>, sh - 1)))

\* n * 2^x for n of L bits
RoundBits(n, x, L) ==
  IF L <= MantBits THEN [m |-> n, e |-> x]
  ELSE RoundShift(n, x, L - MantBits, BigShiftRight(n, L - MantBits))

\* the exact value N * 2^x rounded to 53 significant bits
RoundMant(N, x) == RoundBits(BigTrim(N), x, BigBitLen(N))

Dbl(sg, r) == [sign |-> sg, m |-> r.m, e |-> r.e]

\* the double holding the integer n
FromInt(n) ==
  Dbl(IF n < 0 THEN -1 ELSE 1, RoundMant(BigFromInt(Abs(n)), 0))

\* a / b for integer-valued doubles a and b, 0 < |b| < 2^25
\* the quotient res.q, scaled by 2^(DivGuardLimbs * LimbBits), with a sticky
\* bit for a non-zero remainder
FDivQuot(sg, res) ==
  Dbl(sg, RoundMant(BigAdd(BigMulSmall(res.q, 2), IF res.r = 0 THEN <<>> ELSE <<1>>),
                    0 - (DivGuardLimbs * LimbBits + 1)))

FDivInt(a, b) ==
  FDivQuot(IF (a < 0) = (b < 0) THEN 1 ELSE -1,
           BigDiv(Zeros(DivGuardLimbs) \o BigFromInt(Abs(a)), Abs(b)))

FMul(x, y) == Dbl(x.sign * y.sign, RoundMant(BigMul(x.m, y.m), x.e + y.e))

\* sx * X * 2^e0 + sy * Y * 2^e0
FAddMag(sx, X, sy, Y, e0) ==
  Dbl(IF sx = sy \/ BigCmp(X, Y) >= 0 THEN sx ELSE sy,
      RoundMant(IF sx = sy THEN BigAdd(X, Y)
                ELSE IF BigCmp(X, Y) >= 0 THEN BigSub(X, Y)
                ELSE BigSub(Y, X),
                e0))

FAddAt(x, y, e0) ==
  FAddMag(x.sign, BigShiftLeft(x.m, x.e - e0), y.sign, BigShiftLeft(y.m, y.e - e0), e0)

FAdd(x, y) == FAddAt(x, y, IF x.e < y.e THEN x.e ELSE y.e)

\* floor(x + 0.5) for x with a fractional part, half being 2^(-x.e - 1)
MathRoundFrac(x, half) ==
  x.sign * BigToInt(BigShiftRight(IF x.sign = 1 THEN BigAdd(x.m, half)
                                  ELSE BigSub(BigAdd(x.m, half), <<1>>),
                                  0 - x.e))

\* Math.round: floor(x + 0.5), computed exactly
MathRound(x) ==
  IF x.e >= 0 THEN x.sign * BigToInt(BigShiftLeft(x.m, x.e))
  ELSE MathRoundFrac(x, BigShiftLeft(<<1>>, 0 - x.e - 1))

----------------------------------------------------------------------------
(* utils/calculator.js                                                     *)

DEFAULT_EBAY_FEE_PERCENT == 13
DEFAULT_EBAY_TRANSACTION_FEE_CENTS == 30
DEFAULT_SHIPPING_COST_CENTS == 500

\* the doubles of the constant operands: 100, feePercent / 100.0 and
\* transactionFeeCents / 100.0 with the default fee and transaction fee
Hundred == FromInt(100)
feeFraction == FDivInt(DEFAULT_EBAY_FEE_PERCENT, 100)
transactionFeeDollars == FDivInt(DEFAULT_EBAY_TRANSACTION_FEE_CENTS, 100)

\* calculateEbayFees without the fixed transaction fee
calculateEbayFees_NoTransactionFee(salePriceCents) ==
  LET salePriceDollars == FDivInt(salePriceCents, 100)
      finalValueFee    == FMul(salePriceDollars,
                               feeFraction)
  IN  MathRound(FMul(finalValueFee, Hundred))

\* Total eBay fees in cents: Math.round((s/100 * (13/100) + 30/100) * 100)
calculateEbayFees(salePriceCents) ==
  LET salePriceDollars == FDivInt(salePriceCents, 100)
      finalValueFee    == FMul(salePriceDollars,
                               feeFraction)
      totalFeesDollars == FAdd(finalValueFee,
                               transactionFeeDollars)
  IN  MathRound(FMul(totalFeesDollars, Hundred))

\* RoiHundredths keeping one decimal place instead of two
RoiHundredths_OneDecimal(netProfitCents, purchasePriceCents) ==
  LET roi == IF purchasePriceCents > 0
             THEN FMul(FDivInt(netProfitCents, purchasePriceCents), Hundred)
             ELSE FromInt(0)
  IN  10 * MathRound(FMul(roi, FromInt(10)))

\* Math.round(roi * 100) for roi = (netProfitCents / purchasePriceCents) * 100,
\* or for roi = 0 when the purchase price is not positive.  The reported roi
\* is this integer divided by 100, so the model holds roi in hundredths of a
\* percent (roiHundredths = 1990 is the JavaScript number 19.9).
RoiHundredths(netProfitCents, purchasePriceCents) ==
  LET roi == IF purchasePriceCents > 0
             THEN FMul(FDivInt(netProfitCents, purchasePriceCents), Hundred)
             ELSE FromInt(0)
  IN  MathRound(FMul(roi, Hundred))

CalcRecord(p, s, sh, o, fee, tx, tot, net, roiH) ==
  [purchasePriceCents      |-> p,
   salePriceCents          |-> s,
   ebayFeeCents            |-> fee,
   ebayTransactionFeeCents |-> tx,
   shippingCostCents       |-> sh,
   otherCostsCents         |-> o,
   totalCostsCents         |-> tot,
   grossProfitCents        |-> s - p,
   netProfitCents          |-> net,
   roiHundredths           |-> roiH]

\* the breakdown reporting the total fee as the percentage fee
ProfitBreakdown_FeeNotSplit(p, s, sh, o, ebayFeeCents) ==
  CalcRecord(p, s, sh, o,
             ebayFeeCents,
             DEFAULT_EBAY_TRANSACTION_FEE_CENTS,
             p + sh + o + ebayFeeCents,
             s - (p + sh + o + ebayFeeCents),
             RoiHundredths(s - (p + sh + o + ebayFeeCents), p))

\* the breakdown taking the ROI on the total costs
ProfitBreakdown_RoiOnTotalCosts(p, s, sh, o, ebayFeeCents) ==
  CalcRecord(p, s, sh, o,
             ebayFeeCents - DEFAULT_EBAY_TRANSACTION_FEE_CENTS,
             DEFAULT_EBAY_TRANSACTION_FEE_CENTS,
             p + sh + o + ebayFeeCents,
             s - (p + sh + o + ebayFeeCents),
             RoiHundredths(s - (p + sh + o + ebayFeeCents), p + sh + o + ebayFeeCents))

\* the breakdown for the rounded total fee ebayFeeCents
ProfitBreakdown(p, s, sh, o, ebayFeeCents) ==
  CalcRecord(p, s, sh, o,
             ebayFeeCents - DEFAULT_EBAY_TRANSACTION_FEE_CENTS,
             DEFAULT_EBAY_TRANSACTION_FEE_CENTS,
             p + sh + o + ebayFeeCents,
             s - (p + sh + o + ebayFeeCents),
             RoiHundredths(s - (p + sh + o + ebayFeeCents), p))

calculateProfit(purchasePriceCents, salePriceCents, shippingCostCents, otherCostsCents) ==
  ProfitBreakdown(purchasePriceCents, salePriceCents, shippingCostCents,
                  otherCostsCents, calculateEbayFees(salePriceCents))

----------------------------------------------------------------------------
(* calculate-profit function                                               *)

MaxSaleSteps == 70
MaxPurchaseCents == 12

SalePrices ==
  {50 * i : i \in 0..MaxSaleSteps} \cup {1, 99, 1234, 5000, 7500, 9999, -1, -1650}

PurchasePrices == (0..MaxPurchaseCents) \cup {160, 5000, -100}

ShippingCosts == {0, 500}

OtherCosts == {0, 125}

Opt(S) == {Undefined} \cup {Some(v) : v \in S}

CalcBodies ==
  [purchasePriceCents : {Some(v) : v \in PurchasePrices},
   salePriceCents     : {Some(v) : v \in SalePrices},
   shippingCostCents  : Opt(ShippingCosts),
   otherCostsCents    : Opt(OtherCosts)]
  \cup
  [purchasePriceCents : {Undefined, Some(5000)},
   salePriceCents     : {Undefined},
   shippingCostCents  : {Undefined},
   otherCostsCents    : {Undefined}]
  \cup
  [purchasePriceCents : {Undefined},
   salePriceCents     : {Some(7500)},
   shippingCostCents  : Opt(ShippingCosts),
   otherCostsCents    : {Undefined}]

EmptyBody ==
  [purchasePriceCents |-> Undefined, salePriceCents |-> Undefined,
   shippingCostCents |-> Undefined, otherCostsCents |-> Undefined]

CalcEvents ==
  [httpMethod : {"POST"}, parses : {TRUE}, body : CalcBodies]
  \cup
  [httpMethod : {"OPTIONS", "GET", "POST"}, parses : {FALSE}, body : {EmptyBody}]

NoResponse == [statusCode |-> 0]

OrDefault(opt, d) == IF opt = Undefined THEN d ELSE opt[1]

calculateProfitHandler(event) ==
  IF event.httpMethod = "OPTIONS" THEN [statusCode |-> 200, body |-> ""]
  ELSE IF event.httpMethod # "POST"
  THEN [statusCode |-> 405, success |-> FALSE, error |-> "Method not allowed"]
  ELSE IF ~event.parses
  THEN [statusCode |-> 500, success |-> FALSE, error |-> "Failed to calculate profit"]
  ELSE IF event.body.purchasePriceCents = Undefined
            \/ event.body.salePriceCents = Undefined
  THEN [statusCode |-> 400, success |-> FALSE,
        error |-> "purchasePriceCents and salePriceCents are required"]
  ELSE [statusCode |-> 200, success |-> TRUE,
        calculation |-> calculateProfit(event.body.purchasePriceCents[1],
                                        event.body.salePriceCents[1],
                                        OrDefault(event.body.shippingCostCents, 500),
                                        OrDefault(event.body.otherCostsCents, 0))]

IdleEvent == [httpMethod |-> "NONE"]

NoCatalog == [outcome |-> "unused"]

EmptyStore == <<>>

Procs == {"a", "b"}

\* a process that serves no request
IdleProc ==
  [pc |-> "idle", event |-> IdleEvent, rid |-> 0,
   inventoryData |-> EmptyStore, salesData |-> EmptyStore,
   response |-> NoResponse]

\* no request for search-cards or get-card
CardsIdle ==
  /\ cardsReq = IdleEvent
  /\ cardsResp = NoResponse

\* empty stores and no request for record-sale or inventory
StoreIdle ==
  /\ inventory = EmptyStore
  /\ sales = EmptyStore
  /\ served = 0
  /\ proc = [p \in Procs |-> IdleProc]

InitCalc ==
  /\ calcReq \in CalcEvents
  /\ calcResp = NoResponse
  /\ dealsReq = IdleEvent
  /\ catalog = NoCatalog
  /\ dealsResp = NoResponse
  /\ apiCalls = <<>>
  /\ CardsIdle
  /\ StoreIdle

\* the calculation kept in the sales store
CalculateProfit_Logged ==
  /\ calcReq # IdleEvent
  /\ calcResp = NoResponse
  /\ calcResp' = calculateProfitHandler(calcReq)
  /\ sales' = [k \in DOMAIN sales \cup {0} |-> calcResp']
  /\ UNCHANGED <<calcReq, dealsReq, catalog, dealsResp, cardsReq, cardsResp,
                 apiCalls, inventory, served, proc>>

CalculateProfit ==
  /\ calcReq # IdleEvent
  /\ calcResp = NoResponse
  /\ calcResp' = calculateProfitHandler(calcReq)
  /\ UNCHANGED <<calcReq, dealsReq, catalog, dealsResp, cardsReq, cardsResp,
                 apiCalls, storeVars>>

NextCalc == CalculateProfit

SpecCalc == InitCalc /\ [][NextCalc]_vars

----------------------------------------------------------------------------
(* Properties of the calculator, stated on the calculate-profit response   *)

CalcAnswered ==
  /\ calcReq.httpMethod = "POST"
  /\ calcReq.parses
  /\ calcReq.body.purchasePriceCents # Undefined
  /\ calcReq.body.salePriceCents # Undefined
  /\ calcResp # NoResponse

ReqPurchase == calcReq.body.purchasePriceCents[1]
ReqSale     == calcReq.body.salePriceCents[1]
ReqShipping == OrDefault(calcReq.body.shippingCostCents, 500)
ReqOther    == OrDefault(calcReq.body.otherCostsCents, 0)

\* C1: for non-negative purchase, sale, shipping and additional cents the
\* net profit is the sale price minus the purchase price, the shipping, the
\* additional costs, the reported percentage fee and the fixed 30-cent fee.
C1_NetProfitIdentity ==
  (CalcAnswered /\ ReqPurchase >= 0 /\ ReqSale >= 0)
    => /\ calcResp.statusCode = 200
       /\ calcResp.calculation.ebayTransactionFeeCents = 30
       /\ calcResp.calculation.netProfitCents =
            ReqSale - (ReqPurchase + ReqShipping + ReqOther
                        + calcResp.calculation.ebayFeeCents
                        + calcResp.calculation.ebayTransactionFeeCents)

C1_Witness ==
  /\ CalcAnswered
  /\ ReqPurchase = 160 /\ ReqSale = 1234
  /\ calcReq.body.shippingCostCents = Some(500)
  /\ calcReq.body.otherCostsCents = Some(125)
  /\ calcResp.calculation.netProfitCents = 1234 - (160 + 500 + 125 + 160 + 30)

\* 13 * s / 100 rounded to the nearest cent the way Math.round rounds
PercentFeeExact(s) == (DEFAULT_EBAY_FEE_PERCENT * s + 50) \div 100

\* Math.round(s/100 * (13/100) * 100): the percentage fee rounded on its own
PercentFeeAlone(s) ==
  MathRound(FMul(FMul(FDivInt(s, 100), feeFraction),
                 Hundred))

\* C2: for every non-negative sale price the reported percentage fee is
\* 13*s/100 rounded to the nearest cent, and it is the same number that
\* rounding the percentage fee without the fixed 30 cents gives.
C2_PercentageFeeRounding ==
  (CalcAnswered /\ ReqSale >= 0)
    => /\ calcResp.calculation.ebayFeeCents = PercentFeeExact(ReqSale)
       /\ calcResp.calculation.ebayFeeCents = PercentFeeAlone(ReqSale)

\* C3: with purchase price 0 the calculation succeeds with roi 0 and the net
\* profit is the sale price minus shipping, additional costs and the fee.
C3_ZeroPurchaseRoi ==
  (CalcAnswered /\ ReqPurchase = 0)
    => /\ calcResp.statusCode = 200
       /\ calcResp.calculation.roiHundredths = 0
       /\ calcResp.calculation.netProfitCents =
            ReqSale - 0 - ReqShipping - ReqOther
              - (calcResp.calculation.ebayFeeCents
                  + calcResp.calculation.ebayTransactionFeeCents)

C3_Witness ==
  /\ CalcAnswered
  /\ ReqPurchase = 0 /\ ReqSale = 5000
  /\ calcReq.body.shippingCostCents = Undefined
  /\ calcResp.calculation.roiHundredths = 0
  /\ calcResp.calculation.netProfitCents = 5000 - 500 - 680

\* C4: for a positive purchase price p the roi in hundredths of a percent is
\* an integer nearest to netProfitCents * 10000 / p.
C4_RoiTwoDecimals ==
  (CalcAnswered /\ ReqPurchase > 0)
    => 2 * Abs(calcResp.calculation.roiHundredths * ReqPurchase
                - calcResp.calculation.netProfitCents * 10000) <= ReqPurchase

C4_Witness ==
  /\ CalcAnswered
  /\ ReqPurchase = 7
  /\ calcResp.calculation.netProfitCents < 0
  /\ (calcResp.calculation.netProfitCents * 10000) % ReqPurchase # 0
  /\ calcResp.calculation.roiHundredths # 0

ScenarioA ==
  [purchasePriceCents |-> Some(5000), salePriceCents |-> Some(7500),
   shippingCostCents |-> Some(500), otherCostsCents |-> Some(0)]

\* C5: calculateProfit(5000, 7500, 500, 0) gives percentage fee 975, fixed
\* fee 30, total costs 6505, net profit 995 and roi 19.90.
C5_ScenarioA ==
  (calcReq.httpMethod = "POST" /\ calcReq.parses /\ calcReq.body = ScenarioA
     /\ calcResp # NoResponse)
    => /\ calcResp.statusCode = 200
       /\ calcResp.calculation.ebayFeeCents = 975
       /\ calcResp.calculation.ebayTransactionFeeCents = 30
       /\ calcResp.calculation.totalCostsCents = 6505
       /\ calcResp.calculation.netProfitCents = 995
       /\ calcResp.calculation.roiHundredths = 1990

C5_Witness ==
  /\ calcReq.httpMethod = "POST" /\ calcReq.parses /\ calcReq.body = ScenarioA
  /\ calcResp # NoResponse
  /\ calcResp.statusCode = 200

----------------------------------------------------------------------------
(* utils/api-client.js: normalising a product of the catalog               *)
(*                                                                         *)
(* A raw JSON price is [kind, h]:                                          *)
(*   "absent"  the member is missing         "null"   JSON null            *)
(*   "empty"   the string ''                 "text"   a non-numeric string *)
(*   "num"     the JSON number h / 100       "numstr" the string of the    *)
(*                                                    decimal h / 100      *)
(* Strings that are compared (genres) are sequences of characters.         *)

Raw(kind, h) == [kind |-> kind, h |-> h]
Absent == Raw("absent", 0)

\* JavaScript truthiness of a raw value, as used by a || b
Truthy(raw) ==
  \/ raw.kind \in {"text", "numstr"}
  \/ raw.kind = "num" /\ raw.h # 0

OrElse(a, b) == IF Truthy(a) THEN a ELSE b

parsePriceToCents(priceValue) ==
  IF priceValue.kind \in {"null", "absent", "empty"} THEN 0
  ELSE IF priceValue.kind = "num" /\ priceValue.h % 100 = 0
  THEN priceValue.h \div 100
  ELSE IF priceValue.kind = "text" THEN 0
  ELSE IF priceValue.h < 100000
  THEN MathRound(FMul(FDivInt(priceValue.h, 100), Hundred))
  ELSE MathRound(FDivInt(priceValue.h, 100))

\* the members of the card that find-deals reads; the other price members
\* are parsed by the same parsePriceToCents and only copied into the deal
parseProductData(product) ==
  [id              |-> product.id,
   genre           |-> IF product.genre = Undefined THEN <<>> ELSE product.genre[1],
   loosePriceCents |-> parsePriceToCents(OrElse(product.loosePrice,
                                                product.loosePriceCents))]

----------------------------------------------------------------------------
(* Strings                                                                 *)

LowerOf == [c \in {"a", "b", "A", "B"} |->
              IF c = "A" THEN "a" ELSE IF c = "B" THEN "b" ELSE c]

toLowerCase(s) == [i \in DOMAIN s |-> LowerOf[s[i]]]

includes(hay, needle) ==
  \E i \in 0..(Len(hay) - Len(needle)) :
     \A j \in 1..Len(needle) : hay[i + j] = needle[j]

----------------------------------------------------------------------------
(* find-deals function                                                     *)

\* if (genre && card.genre && !card.genre.toLowerCase().includes(...)) continue
GenreSkips(genre, card) ==
  /\ genre # Undefined
  /\ genre[1] # <<>>
  /\ card.genre # <<>>
  /\ ~includes(toLowerCase(card.genre), toLowerCase(genre[1]))

\* the zero check left out
NoMarketValue_Never(marketValueCents) == FALSE

\* if (marketValueCents === 0) continue
NoMarketValue(marketValueCents) == marketValueCents = 0

\* the double of the literal 0.8
EightTenths == FDivInt(8, 10)

\* 70% of the market value
RecommendedBuyPrice_SeventyPercent(marketValueCents) ==
  MathRound(FMul(FromInt(marketValueCents), FDivInt(7, 10)))

\* Math.round(marketValueCents * 0.8)
RecommendedBuyPrice(marketValueCents) ==
  MathRound(FMul(FromInt(marketValueCents), EightTenths))

\* if (maxPrice && recommendedBuyPriceCents > maxPrice * 100) continue
OverMaxPrice(maxPrice, recommendedBuyPriceCents) ==
  /\ maxPrice # Undefined
  /\ maxPrice[1] # 0
  /\ recommendedBuyPriceCents > maxPrice[1] * 100

\* the ROI comparison turned round
MeetsMinRoi_Inverted(roiHundredths, minRoiHundredths) ==
  roiHundredths <= minRoiHundredths

\* if (profitCalc.roi >= minRoi), both sides in hundredths of a percent:
\* x / 100 is rounded the same way for the roi and for a threshold written
\* with two decimals, and it is increasing, so the order is that of x
MeetsMinRoi(roiHundredths, minRoiHundredths) == roiHundredths >= minRoiHundredths

\* deals.push({...}) when the ROI meets the threshold
DealIfProfitable(card, marketValueCents, recommendedBuyPriceCents, profitCalc, minRoi) ==
  IF MeetsMinRoi(profitCalc.roiHundredths, minRoi)
  THEN <<[card                     |-> card,
          marketValueCents         |-> marketValueCents,
          recommendedBuyPriceCents |-> recommendedBuyPriceCents,
          potentialProfitCents     |-> profitCalc.netProfitCents,
          roiHundredths            |-> profitCalc.roiHundredths]>>
  ELSE <<>>

\* the profit computed without shipping
EvaluatePrice_NoShipping(card, marketValueCents, recommendedBuyPriceCents, minRoi, maxPrice) ==
  IF OverMaxPrice(maxPrice, recommendedBuyPriceCents) THEN <<>>
  ELSE DealIfProfitable(card, marketValueCents, recommendedBuyPriceCents,
                        calculateProfit(recommendedBuyPriceCents, marketValueCents, 0, 0),
                        minRoi)

EvaluatePrice(card, marketValueCents, recommendedBuyPriceCents, minRoi, maxPrice) ==
  IF OverMaxPrice(maxPrice, recommendedBuyPriceCents) THEN <<>>
  ELSE DealIfProfitable(card, marketValueCents, recommendedBuyPriceCents,
                        calculateProfit(recommendedBuyPriceCents, marketValueCents,
                                        DEFAULT_SHIPPING_COST_CENTS, 0),
                        minRoi)

\* one pass of the loop body: the deal pushed for the card, if any
EvaluateCard(card, minRoi, maxPrice, genre) ==
  IF GenreSkips(genre, card) THEN <<>>
  ELSE IF NoMarketValue(card.loosePriceCents) THEN <<>>
  ELSE EvaluatePrice(card, card.loosePriceCents,
                     RecommendedBuyPrice(card.loosePriceCents), minRoi, maxPrice)

\* the deals pushed for products[i..], in the order of the catalog
RECURSIVE CollectDeals(_, _, _, _, _)
CollectDeals(products, i, minRoi, maxPrice, genre) ==
  IF i > Len(products) THEN <<>>
  ELSE EvaluateCard(parseProductData(products[i]), minRoi, maxPrice, genre)
         \o CollectDeals(products, i + 1, minRoi, maxPrice, genre)

RECURSIVE InsertByRoi(_, _)
\* a deal put before the deals of equal roi
InsertByRoi_BeforeEquals(sorted, d) ==
  IF sorted = <<>> THEN <<d>>
  ELSE IF Head(sorted).roiHundredths > d.roiHundredths
  THEN <<Head(sorted)>> \o InsertByRoi(Tail(sorted), d)
  ELSE <<d>> \o sorted

InsertByRoi(sorted, d) ==
  IF sorted = <<>> THEN <<d>>
  ELSE IF Head(sorted).roiHundredths >= d.roiHundredths
  THEN <<Head(sorted)>> \o InsertByRoi(Tail(sorted), d)
  ELSE <<d>> \o sorted

RECURSIVE SortFrom(_, _, _)
SortFrom(deals, i, acc) ==
  IF i > Len(deals) THEN acc
  ELSE SortFrom(deals, i + 1, InsertByRoi(acc, deals[i]))

\* the deals left in catalog order
sortByRoiDescending_Unsorted(deals) == deals

\* deals.sort((a, b) => b.roi - a.roi); Array.prototype.sort is stable
sortByRoiDescending(deals) == SortFrom(deals, 1, <<>>)

\* an empty list answered as an error
DealsResponse_EmptyIsError(deals) ==
  IF deals = <<>>
  THEN [statusCode |-> 404, success |-> FALSE, error |-> "No deals found"]
  ELSE [statusCode |-> 200, success |-> TRUE, deals |-> deals, count |-> Len(deals)]

DealsResponse(deals) ==
  [statusCode |-> 200, success |-> TRUE, deals |-> deals, count |-> Len(deals)]

\* the default threshold taken as 0
MinRoiOrDefault_Zero(body) == OrDefault(body.minRoi, 0)

\* const { minRoi = 20 } = body, in hundredths of a percent
MinRoiOrDefault(body) == OrDefault(body.minRoi, 2000)

findDealsHandler(event, upstream) ==
  IF event.httpMethod = "OPTIONS" THEN [statusCode |-> 200, body |-> ""]
  ELSE IF event.httpMethod # "POST"
  THEN [statusCode |-> 405, success |-> FALSE, error |-> "Method not allowed"]
  ELSE IF ~event.parses \/ upstream.outcome = "throws"
  THEN [statusCode |-> 500, success |-> FALSE, error |-> "Failed to find deals"]
  ELSE DealsResponse(
         sortByRoiDescending(
           CollectDeals(IF upstream.hasProducts THEN upstream.products ELSE <<>>,
                        1, MinRoiOrDefault(event.body),
                        event.body.maxPrice, event.body.genre)))

ApiCall(path, arg) == [path |-> path, arg |-> arg]

\* the calls of callSportsCardsProAPI the handler makes: the search runs
\* with the query of the body, or with '' when the body has none
findDealsCalls(event) ==
  IF event.httpMethod = "POST" /\ event.parses
  THEN <<ApiCall("/api/products", OrDefault(event.body.query, ""))>>
  ELSE <<>>

MaxProducts == 2

Product(id, genre, loose, alt) ==
  [id |-> id, genre |-> genre, loosePrice |-> loose, loosePriceCents |-> alt]

ProductPool ==
  { Product(1, Some(<<"A", "b">>), Raw("num", 10000000), Absent),
    Product(2, Some(<<"a", "b">>), Raw("num", 1000000), Absent),
    Product(3, Undefined,          Raw("numstr", 7500), Absent),
    Product(4, Some(<<"B">>),      Raw("null", 0), Raw("num", 1000000)),
    Product(5, Some(<<"A", "b">>), Raw("num", 0), Absent),
    Product(6, Some(<<"a">>),      Raw("text", 0), Raw("num", 1000000)),
    Product(7, Some(<<"b", "A">>), Absent, Absent),
    Product(8, Some(<<"B">>),      Raw("num", -50000), Absent),
    Product(9, Some(<<"a">>),      Raw("num", 1234), Raw("num", 999900)) }

Range(s) == {s[i] : i \in DOMAIN s}

RECURSIVE Listings(_)
Listings(n) ==
  IF n = 0 THEN {<<>>}
  ELSE LET shorter == Listings(n - 1)
       IN  shorter \cup
           UNION {{Append(s, x) : x \in ProductPool \ Range(s)} :
                    s \in {u \in shorter : Len(u) = n - 1}}

Catalogs ==
  [outcome : {"ok"}, hasProducts : {TRUE}, products : Listings(MaxProducts)]
  \cup
  {[outcome |-> "ok", hasProducts |-> FALSE, products |-> <<>>],
   [outcome |-> "throws", hasProducts |-> FALSE, products |-> <<>>]}

DealBodies ==
  [query    : {Undefined, Some("mantle")},
   minRoi   : {Undefined, Some(-5000), Some(0), Some(200)},
   maxPrice : {Undefined},
   genre    : {Undefined}]
  \cup
  [query    : {Some("mantle")},
   minRoi   : {Some(-5000), Some(0)},
   maxPrice : {Some(0), Some(500), Some(5000)},
   genre    : {Undefined}]
  \cup
  [query    : {Some("mantle")},
   minRoi   : {Some(-5000), Some(200)},
   maxPrice : {Undefined, Some(500)},
   genre    : {Some(<<>>), Some(<<"b">>), Some(<<"A", "B">>)}]

DealEvents ==
  [httpMethod : {"POST"}, parses : {TRUE}, body : DealBodies]
  \cup
  [httpMethod : {"OPTIONS", "GET", "POST"}, parses : {FALSE},
   body : {[query |-> Undefined, minRoi |-> Undefined, maxPrice |-> Undefined,
            genre |-> Undefined]}]

InitDeals ==
  /\ calcReq = IdleEvent
  /\ calcResp = NoResponse
  /\ dealsReq \in DealEvents
  /\ catalog \in Catalogs
  /\ dealsResp = NoResponse
  /\ apiCalls = <<>>
  /\ CardsIdle
  /\ StoreIdle

FindDeals ==
  /\ dealsReq # IdleEvent
  /\ dealsResp = NoResponse
  /\ dealsResp' = findDealsHandler(dealsReq, catalog)
  /\ apiCalls' = findDealsCalls(dealsReq)
  /\ UNCHANGED <<calcReq, calcResp, dealsReq, catalog, cardsReq, cardsResp,
                 storeVars>>

NextDeals == FindDeals

SpecDeals == InitDeals /\ [][NextDeals]_vars

----------------------------------------------------------------------------
(* Properties of find-deals                                                *)

DealsAnswered ==
  /\ dealsReq.httpMethod = "POST"
  /\ dealsReq.parses
  /\ catalog.outcome = "ok"
  /\ dealsResp # NoResponse

Deals == dealsResp.deals

DealIds(deals) == {deals[k].card.id : k \in DOMAIN deals}

\* what the same request answers for the same catalog with minRoi = 0
DealsAtZero ==
  findDealsHandler([dealsReq EXCEPT !.body.minRoi = Some(0)], catalog).deals

AmongAndAbove(deals, atZero, threshold) ==
  \A k \in DOMAIN deals :
     /\ deals[k] \in atZero
     /\ deals[k].roiHundredths >= threshold

SubsetOfZeroAndAboveThreshold ==
  AmongAndAbove(Deals, Range(DealsAtZero), dealsReq.body.minRoi[1])

\* C6 as stated: for every minRoi = X the deals are a subset of the deals for
\* minRoi = 0 and every deal has roi >= X.
C6_SubsetForAnyMinRoi ==
  (DealsAnswered /\ dealsReq.body.minRoi # Undefined)
    => SubsetOfZeroAndAboveThreshold

\* C6 amended: for every minRoi = X >= 0 the deals are a subset of the deals
\* for minRoi = 0 and every deal has roi >= X.
C6_SubsetForNonNegativeMinRoi ==
  (DealsAnswered /\ dealsReq.body.minRoi # Undefined /\ dealsReq.body.minRoi[1] >= 0)
    => SubsetOfZeroAndAboveThreshold

C6_Witness ==
  /\ DealsAnswered
  /\ dealsReq.body.minRoi = Some(200)
  /\ Len(Deals) >= 1
  /\ Len(DealsAtZero) > Len(Deals)

\* C7: the deals are sorted non-increasing by roi.
C7_SortedByRoiDescending ==
  DealsAnswered =>
    \A k \in 1..(Len(Deals) - 1) :
       Deals[k].roiHundredths >= Deals[k + 1].roiHundredths

C7_Witness ==
  /\ DealsAnswered
  /\ Len(catalog.products) = 2
  /\ catalog.products[1].id = 2 /\ catalog.products[2].id = 1
  /\ Len(Deals) = 2
  /\ Deals[1].card.id = 1 /\ Deals[2].card.id = 2
  /\ Deals[1].roiHundredths = 809 /\ Deals[2].roiHundredths = 213

\* a raw price that is zero, missing or not a number
Unusable(raw) ==
  \/ raw.kind \in {"absent", "null", "empty", "text"}
  \/ raw.kind \in {"num", "numstr"} /\ raw.h = 0

\* the price member the catalog delivered: 'loose-price' unless it is falsy
DeliveredPrice(product) ==
  IF product.loosePrice.kind \in {"absent", "null", "empty"}
       \/ (product.loosePrice.kind = "num" /\ product.loosePrice.h = 0)
  THEN product.loosePriceCents
  ELSE product.loosePrice

\* C8: a candidate whose market value is 0, missing or unparseable is in no
\* deals list, whatever minRoi, price ceiling and genre filter are.
C8_NoDealWithoutMarketValue ==
  DealsAnswered =>
    /\ \A k \in DOMAIN Deals : Deals[k].marketValueCents # 0
    /\ \A i \in DOMAIN catalog.products :
         Unusable(DeliveredPrice(catalog.products[i]))
           => catalog.products[i].id \notin DealIds(Deals)

C8_Witness ==
  /\ DealsAnswered
  /\ dealsReq.body.minRoi = Some(-5000)
  /\ dealsReq.body.maxPrice = Undefined
  /\ dealsReq.body.genre = Undefined
  /\ Len(catalog.products) = 2
  /\ Unusable(DeliveredPrice(catalog.products[1]))
  /\ catalog.products[1].loosePrice.kind = "num"
  /\ DealIds(Deals) = {catalog.products[2].id}

\* C9: when the request carries a maximum purchase price of c cents, every
\* deal has recommendedBuyPriceCents <= c.
C9_WithinPriceCeiling ==
  (DealsAnswered /\ dealsReq.body.maxPrice # Undefined)
    => \A k \in DOMAIN Deals :
          Deals[k].recommendedBuyPriceCents <= dealsReq.body.maxPrice[1]

\* C10: when the request carries a genre filter, the genre of every deal's
\* card contains the filter, compared without regard to case, and every
\* candidate whose genre does not contain it is left out.
C10_GenreFilter ==
  (DealsAnswered /\ dealsReq.body.genre # Undefined)
    => /\ \A k \in DOMAIN Deals :
            includes(toLowerCase(Deals[k].card.genre),
                     toLowerCase(dealsReq.body.genre[1]))
       /\ \A i \in DOMAIN catalog.products :
            ~includes(toLowerCase(OrDefault(catalog.products[i].genre, <<>>)),
                      toLowerCase(dealsReq.body.genre[1]))
              => catalog.products[i].id \notin DealIds(Deals)


\* the candidates that pass the genre, market-value and price-ceiling filters,
\* in the order of the answer: no card of the catalog has an ROI below -100000%
AllCandidates ==
  findDealsHandler([dealsReq EXCEPT !.body.minRoi = Some(-10000000)], catalog).deals

RECURSIVE KeepAtLeast(_, _)
KeepAtLeast(deals, roiHundredths) ==
  IF deals = <<>> THEN <<>>
  ELSE IF Head(deals).roiHundredths >= roiHundredths
  THEN <<Head(deals)>> \o KeepAtLeast(Tail(deals), roiHundredths)
  ELSE KeepAtLeast(Tail(deals), roiHundredths)

\* C11: when the request carries no minRoi the deals are exactly the
\* candidates passing the other filters whose roi is at least 20.
C11_DefaultMinRoi ==
  (DealsAnswered /\ dealsReq.body.minRoi = Undefined)
    => Deals = KeepAtLeast(AllCandidates, 2000)

C11_Witness ==
  /\ DealsAnswered
  /\ dealsReq.body.minRoi = Undefined
  /\ Len(AllCandidates) = 2
  /\ AllCandidates[1].roiHundredths = 809
  /\ Deals = <<>>

\* the products the catalog answered with: response.products || []
Candidates == IF catalog.hasProducts THEN catalog.products ELSE <<>>

\* the loop pushes nothing for the candidate
Passes(product) ==
  EvaluateCard(parseProductData(product), MinRoiOrDefault(dealsReq.body),
               dealsReq.body.maxPrice, dealsReq.body.genre) # <<>>

\* C23: whenever the catalog answers, find-deals answers 200 with success and
\* count = the length of deals, also for candidates that lack their genre or
\* their prices; for a catalog answer that is empty, or of which no candidate
\* passes the filters, deals is empty and count is 0: a first deal has a
\* candidate behind it that passes.
C23_EmptyIsSuccess ==
  DealsAnswered =>
    /\ dealsResp.statusCode = 200
    /\ dealsResp.success
    /\ dealsResp.count = Len(dealsResp.deals)
    /\ \/ dealsResp.deals = <<>> /\ dealsResp.count = 0
       \/ \E i \in DOMAIN Candidates :
            Candidates[i].id = dealsResp.deals[1].card.id /\ Passes(Candidates[i])

C23_Witness ==
  /\ DealsAnswered
  /\ dealsReq.body.minRoi = Some(-5000)
  /\ Len(catalog.products) = 2
  /\ catalog.products[1] = Product(7, Some(<<"b", "A">>), Absent, Absent)
  /\ catalog.products[2] = Product(5, Some(<<"A", "b">>), Raw("num", 0), Absent)
  /\ dealsResp = [statusCode |-> 200, success |-> TRUE, deals |-> <<>>, count |-> 0]

\* 0.8 * m rounded to the nearest cent: 8 * m / 10 is never half-way
EightyPercent(m) == (8 * m + 5) \div 10

\* calculateProfit(recommended buy price, market value) with the defaults
DealProfit(m) == calculateProfit(EightyPercent(m), m, 500, 0)

\* the deal carries the recommended price and the figures of the breakdown
DealCarries(deal, profit) ==
  /\ deal.recommendedBuyPriceCents = EightyPercent(deal.marketValueCents)
  /\ deal.roiHundredths = profit.roiHundredths
  /\ deal.potentialProfitCents = profit.netProfitCents

\* C26: every deal has recommendedBuyPriceCents = 0.8 * marketValueCents
\* rounded to the nearest cent, and its roi and potentialProfitCents are those
\* of calculateProfit(recommendedBuyPriceCents, marketValueCents) with
\* shipping 500 and no other costs; without a genre filter and a price
\* ceiling, a candidate with a market value is a deal iff that roi >= minRoi.
C26_DealFromCalculator ==
  DealsAnswered =>
    /\ \A k \in DOMAIN Deals :
         DealCarries(Deals[k], DealProfit(Deals[k].marketValueCents))
    /\ (dealsReq.body.genre = Undefined /\ dealsReq.body.maxPrice = Undefined)
         => \A i \in DOMAIN Candidates :
              parseProductData(Candidates[i]).loosePriceCents # 0
                => IF Candidates[i].id \in DealIds(Deals)
                   THEN \A k \in DOMAIN Deals :
                          Deals[k].card.id = Candidates[i].id
                            => /\ Deals[k].marketValueCents
                                    = parseProductData(Candidates[i]).loosePriceCents
                               /\ Deals[k].roiHundredths
                                    >= MinRoiOrDefault(dealsReq.body)
                   ELSE DealProfit(parseProductData(Candidates[i]).loosePriceCents)
                          .roiHundredths < MinRoiOrDefault(dealsReq.body)

C26_Witness ==
  /\ DealsAnswered
  /\ dealsReq.body.minRoi = Some(200)
  /\ dealsReq.body.genre = Undefined /\ dealsReq.body.maxPrice = Undefined
  /\ Len(Deals) = 1
  /\ Deals[1].marketValueCents = 10000
  /\ Deals[1].recommendedBuyPriceCents = 8000
  /\ Deals[1].potentialProfitCents = 170
  /\ Deals[1].roiHundredths = 213
  /\ Len(Candidates) = 2

\* the place of the product in the catalog answer
PlaceInCatalog(id) ==
  CHOOSE i \in DOMAIN Candidates : Candidates[i].id = id

\* C27: deals of equal roi stand in the order their candidates have in the
\* catalog answer.
C27_TiesInCatalogOrder ==
  DealsAnswered =>
    \A j, k \in DOMAIN Deals :
       (j < k /\ Deals[j].roiHundredths = Deals[k].roiHundredths)
         => PlaceInCatalog(Deals[j].card.id) < PlaceInCatalog(Deals[k].card.id)

C27_Witness ==
  /\ DealsAnswered
  /\ Len(catalog.products) = 2
  /\ catalog.products[1].id = 4 /\ catalog.products[2].id = 2
  /\ Len(Deals) = 2
  /\ Deals[1].card.id = 4 /\ Deals[2].card.id = 2
  /\ Deals[1].roiHundredths = 213 /\ Deals[2].roiHundredths = 213

----------------------------------------------------------------------------
(* find-deals over the range of market values                              *)

MaxSmallMarket == 40
MaxMarketSteps == 60

\* market values in cents: the small ones, steps of $2500 up to $150000 and
\* the two values between which the rounded ROI first reaches 8.75
MarketValues ==
  (1..MaxSmallMarket) \cup {250000 * k : k \in 1..MaxMarketSteps}
    \cup {13226972, 13226973}

\* a catalog answer of one product whose loose-price is the integer m
InitRoi ==
  /\ calcReq = IdleEvent
  /\ calcResp = NoResponse
  /\ dealsReq \in [httpMethod : {"POST"}, parses : {TRUE},
                   body : [query : {Some("mantle")},
                           minRoi : {Undefined, Some(875), Some(900)},
                           maxPrice : {Undefined}, genre : {Undefined}]]
  /\ \E m \in MarketValues :
       catalog = [outcome |-> "ok", hasProducts |-> TRUE,
                  products |-> <<Product(1, Undefined, Raw("num", 100 * m), Absent)>>]
  /\ dealsResp = NoResponse
  /\ apiCalls = <<>>
  /\ CardsIdle
  /\ StoreIdle

SpecRoi == InitRoi /\ [][NextDeals]_vars

HighMinRoi == MinRoiOrDefault(dealsReq.body) >= 900

----------------------------------------------------------------------------
(* search-cards and get-card functions                                     *)

\* JavaScript truthiness of a query-string parameter
Given(param) == param # Undefined /\ param # Some("")

RECURSIVE ParseAll(_, _)
ParseAll(products, i) ==
  IF i > Len(products) THEN <<>>
  ELSE <<parseProductData(products[i])>> \o ParseAll(products, i + 1)

ProductsResponse(parsedProducts) ==
  [statusCode |-> 200, success |-> TRUE,
   products |-> parsedProducts, count |-> Len(parsedProducts)]

searchCardsHandler(event, upstream) ==
  IF event.httpMethod = "OPTIONS" THEN [statusCode |-> 200, body |-> ""]
  ELSE IF event.httpMethod # "GET"
  THEN [statusCode |-> 405, success |-> FALSE, error |-> "Method not allowed"]
  ELSE IF ~Given(event.query.q)
  THEN [statusCode |-> 400, success |-> FALSE,
        error |-> "Query parameter \"q\" is required"]
  ELSE IF upstream.outcome = "throws"
  THEN [statusCode |-> 500, success |-> FALSE, error |-> "Failed to search cards"]
  ELSE ProductsResponse(
         ParseAll(IF upstream.hasProducts THEN upstream.products ELSE <<>>, 1))

\* the calls of callSportsCardsProAPI the handler makes
searchCardsCalls(event) ==
  IF event.httpMethod = "GET" /\ Given(event.query.q)
  THEN <<ApiCall("/api/products", event.query.q[1])>>
  ELSE <<>>

getCardHandler(event, upstream) ==
  IF event.httpMethod = "OPTIONS" THEN [statusCode |-> 200, body |-> ""]
  ELSE IF event.httpMethod # "GET"
  THEN [statusCode |-> 405, success |-> FALSE, error |-> "Method not allowed"]
  ELSE IF ~Given(event.query.id)
  THEN [statusCode |-> 400, success |-> FALSE,
        error |-> "Query parameter \"id\" is required"]
  ELSE IF upstream.outcome = "throws"
  THEN [statusCode |-> 500, success |-> FALSE, error |-> "Failed to get card"]
  ELSE [statusCode |-> 200, success |-> TRUE,
        card |-> parseProductData(upstream.product)]

getCardCalls(event) ==
  IF event.httpMethod = "GET" /\ Given(event.query.id)
  THEN <<ApiCall("/api/product", event.query.id[1])>>
  ELSE <<>>

CardEvent(fn, httpMethod, query) ==
  [fn |-> fn, httpMethod |-> httpMethod, query |-> query]

SearchEvents ==
  {CardEvent("search-cards", m, [q |-> q]) :
     m \in {"OPTIONS", "GET", "POST"}, q \in {Undefined, Some(""), Some("mantle")}}

GetCardEvents ==
  {CardEvent("get-card", m, [id |-> i]) :
     m \in {"OPTIONS", "GET", "POST"}, i \in {Undefined, Some(""), Some("c1")}}

ProductAnswers ==
  {[outcome |-> "ok", product |-> p] : p \in ProductPool}
  \cup {[outcome |-> "throws"]}

InitCards ==
  /\ calcReq = IdleEvent /\ calcResp = NoResponse
  /\ dealsReq = IdleEvent /\ dealsResp = NoResponse
  /\ \/ cardsReq \in SearchEvents /\ catalog \in Catalogs
     \/ cardsReq \in GetCardEvents /\ catalog \in ProductAnswers
  /\ cardsResp = NoResponse
  /\ apiCalls = <<>>
  /\ StoreIdle

SearchCards ==
  /\ cardsReq # IdleEvent
  /\ cardsReq.fn = "search-cards"
  /\ cardsResp = NoResponse
  /\ cardsResp' = searchCardsHandler(cardsReq, catalog)
  /\ apiCalls' = searchCardsCalls(cardsReq)
  /\ UNCHANGED <<calcReq, calcResp, dealsReq, catalog, dealsResp, cardsReq, storeVars>>

GetCard ==
  /\ cardsReq # IdleEvent
  /\ cardsReq.fn = "get-card"
  /\ cardsResp = NoResponse
  /\ cardsResp' = getCardHandler(cardsReq, catalog)
  /\ apiCalls' = getCardCalls(cardsReq)
  /\ UNCHANGED <<calcReq, calcResp, dealsReq, catalog, dealsResp, cardsReq, storeVars>>

NextCards == SearchCards \/ GetCard

SpecCards == InitCards /\ [][NextCards]_vars

----------------------------------------------------------------------------
(* utils/storage.js: two blobs, each read whole and written whole          *)
(*                                                                         *)
(* A blob is a function from ids to records.  The handlers below run as    *)
(* processes: every await of a store or catalog operation ends one step,   *)
(* and the synchronous code up to the next await belongs to the step that  *)
(* follows the awaited operation.  What a handler holds between two steps  *)
(* (its copies inventoryData and salesData) is part of its process.        *)

Put(store, k, v) ==
  [x \in DOMAIN store \cup {k} |-> IF x = k THEN v ELSE store[x]]

Remove(store, k) == [x \in DOMAIN store \ {k} |-> store[x]]

\* the blob, or {} when the read throws
getAllInventory(readOk) == IF readOk THEN inventory ELSE EmptyStore

saveInventory(inventoryData) == inventory' = inventoryData

getAllSales(readOk) == IF readOk THEN sales ELSE EmptyStore

saveSales(salesData) == sales' = salesData

Failure(statusCode, error) ==
  [statusCode |-> statusCode, success |-> FALSE, error |-> error]

\* the handler returns: its copies of the blobs are dropped
Finished(pr, response) ==
  [pr EXCEPT !.pc = "done", !.inventoryData = EmptyStore,
             !.salesData = EmptyStore, !.response = response]

\* Math.round(dollars * 100) for the JSON number h / 100
DollarsToCents(h) == MathRound(FMul(FDivInt(h, 100), Hundred))

----------------------------------------------------------------------------
(* record-sale function                                                    *)

\* soldPrice not required
recordSaleValidate_IdOnly(event) ==
  IF event.httpMethod = "OPTIONS" THEN [statusCode |-> 200, body |-> ""]
  ELSE IF event.httpMethod # "POST" THEN Failure(405, "Method not allowed")
  ELSE IF ~event.parses THEN Failure(500, "Failed to record sale")
  ELSE IF event.body.inventoryId = Undefined
  THEN Failure(400, "inventoryId and soldPrice are required")
  ELSE NoResponse

\* the code before the first await: the response, or none to go on
recordSaleValidate(event) ==
  IF event.httpMethod = "OPTIONS" THEN [statusCode |-> 200, body |-> ""]
  ELSE IF event.httpMethod # "POST" THEN Failure(405, "Method not allowed")
  ELSE IF ~event.parses THEN Failure(500, "Failed to record sale")
  ELSE IF event.body.inventoryId = Undefined \/ event.body.soldPrice = Undefined
  THEN Failure(400, "inventoryId and soldPrice are required")
  ELSE NoResponse

\* Math.round((soldPriceCents * 0.13) + 30)
DefaultSaleFees(soldPriceCents) ==
  MathRound(FAdd(FMul(FromInt(soldPriceCents), FDivInt(13, 100)), FromInt(30)))

SaleFeesCents(body, soldPriceCents) ==
  IF body.actualFees # Undefined THEN DollarsToCents(body.actualFees[1])
  ELSE DefaultSaleFees(soldPriceCents)

\* parseFloat(x.toFixed(2)) in hundredths: the integer nearest to |x| * 100,
\* the larger one of two, with the sign of x
ToFixed2(x) ==
  x.sign * MathRound([sign |-> 1, m |-> BigMulSmall(x.m, 100), e |-> x.e])

SaleRoi(netProfitCents, purchasePriceCents) ==
  IF purchasePriceCents > 0
  THEN ToFixed2(FMul(FDivInt(netProfitCents, purchasePriceCents), Hundred))
  ELSE 0

\* soldDate || new Date().toISOString().split('T')[0]
SoldDateOr(body, today) ==
  IF body.soldDate # Undefined THEN body.soldDate[1] ELSE today

SoldItem(item, soldDate, soldPriceCents, ebayFeesCents, netProfitCents) ==
  [item EXCEPT !.sold            = TRUE,
               !.soldDate        = Some(soldDate),
               !.soldPriceCents  = Some(soldPriceCents),
               !.ebayFeesCents   = Some(ebayFeesCents),
               !.netProfitCents  = Some(netProfitCents),
               !.roi             = Some(SaleRoi(netProfitCents,
                                                item.purchasePriceCents))]

SoldItemWithFees(item, soldDate, soldPriceCents, ebayFeesCents) ==
  SoldItem(item, soldDate, soldPriceCents, ebayFeesCents,
           soldPriceCents - item.purchasePriceCents - ebayFeesCents)

SoldItemAt(item, body, soldDate, soldPriceCents) ==
  SoldItemWithFees(item, soldDate, soldPriceCents,
                   SaleFeesCents(body, soldPriceCents))

\* inventoryData[inventoryId] = {...item, sold: true, ...}
MarkSold(item, body, today) ==
  SoldItemAt(item, body, SoldDateOr(body, today),
             DollarsToCents(body.soldPrice[1]))

\* the check of item.sold left out
recordSaleCheck_NoSoldCheck(pr, inventoryData, inventoryId, today) ==
  IF inventoryId \notin DOMAIN inventoryData
  THEN Finished(pr, Failure(404, "Inventory item not found"))
  ELSE [pr EXCEPT !.pc = "saveInventory",
                  !.inventoryData =
                     Put(inventoryData, inventoryId,
                         MarkSold(inventoryData[inventoryId], pr.event.body, today))]

\* after await getAllInventory(): not found, already sold, or the item
\* marked sold in the handler's copy
recordSaleCheck(pr, inventoryData, inventoryId, today) ==
  IF inventoryId \notin DOMAIN inventoryData
  THEN Finished(pr, Failure(404, "Inventory item not found"))
  ELSE IF inventoryData[inventoryId].sold
  THEN Finished(pr, Failure(400, "Item already sold"))
  ELSE [pr EXCEPT !.pc = "saveInventory",
                  !.inventoryData =
                     Put(inventoryData, inventoryId,
                         MarkSold(inventoryData[inventoryId], pr.event.body, today))]

\* salesData[saleId] = {...}: the figures are the handler's locals, which its
\* copy of the updated item holds; the date is taken anew
SaleRecord(saleId, inventoryId, updatedItem, soldDate) ==
  [id                 |-> saleId,
   inventoryId        |-> inventoryId,
   cardId             |-> updatedItem.cardId,
   soldDate           |-> soldDate,
   purchasePriceCents |-> updatedItem.purchasePriceCents,
   soldPriceCents     |-> updatedItem.soldPriceCents[1],
   ebayFeesCents      |-> updatedItem.ebayFeesCents[1],
   netProfitCents     |-> updatedItem.netProfitCents[1],
   roi                |-> updatedItem.roi[1]]

SaleRecorded(pr, inventoryId) ==
  Finished(pr, [statusCode  |-> 200, success |-> TRUE,
                sale        |-> pr.salesData[pr.rid],
                updatedItem |-> pr.inventoryData[inventoryId]])

----------------------------------------------------------------------------
(* inventory function                                                      *)

inventoryValidate(event) ==
  IF event.httpMethod = "OPTIONS" THEN [statusCode |-> 200, body |-> ""]
  ELSE IF event.httpMethod \notin {"GET", "POST", "PUT", "DELETE"}
  THEN Failure(405, "Method not allowed")
  ELSE IF event.httpMethod \in {"POST", "PUT"} /\ ~event.parses
  THEN Failure(500, "Internal server error")
  ELSE IF event.httpMethod = "POST"
            /\ (event.body.cardId = Undefined \/ event.body.purchasePrice = Undefined)
  THEN Failure(400, "cardId and purchasePrice are required")
  ELSE IF event.httpMethod \in {"PUT", "DELETE"} /\ event.body.id = Undefined
  THEN Failure(400, "id is required")
  ELSE NoResponse

\* const newItem = {...}: the members the sale and the reports read; the
\* members copied from the catalog and the free-text ones are left out
NewItem(id, cardId, purchasePriceCents) ==
  [id                 |-> id,
   cardId             |-> cardId,
   purchasePriceCents |-> purchasePriceCents,
   sold               |-> FALSE,
   soldDate           |-> Undefined,
   soldPriceCents     |-> Undefined,
   ebayFeesCents      |-> Undefined,
   netProfitCents     |-> Undefined,
   roi                |-> Undefined]

\* {...inventoryData[id], ...updates}: purchasePrice is converted to cents,
\* every other member of the body replaces the member of the same name
ApplyUpdates(item, updates) ==
  [item EXCEPT
     !.purchasePriceCents = IF updates.purchasePrice # Undefined
                            THEN DollarsToCents(updates.purchasePrice[1]) ELSE @,
     !.sold               = IF updates.sold # Undefined THEN updates.sold[1] ELSE @]

handlePutUpdate(pr, inventoryData, id) ==
  IF id \notin DOMAIN inventoryData
  THEN Finished(pr, Failure(404, "Inventory item not found"))
  ELSE [pr EXCEPT !.pc = "saveInventory",
                  !.inventoryData = Put(inventoryData, id,
                                        ApplyUpdates(inventoryData[id], pr.event.body))]

handleDeleteRemove(pr, inventoryData, id) ==
  IF id \notin DOMAIN inventoryData
  THEN Finished(pr, Failure(404, "Inventory item not found"))
  ELSE [pr EXCEPT !.pc = "saveInventory",
                  !.inventoryData = Remove(inventoryData, id)]

\* the ids of the items handleGet lists
Listed(inventoryData, status) ==
  {id \in DOMAIN inventoryData :
     \/ status \notin {Some("available"), Some("sold")}
     \/ status = Some("available") /\ ~inventoryData[id].sold
     \/ status = Some("sold") /\ inventoryData[id].sold}

handleGetList(pr, inventoryData, listed) ==
  Finished(pr, [statusCode |-> 200, success |-> TRUE,
                inventory  |-> [id \in listed |-> inventoryData[id]],
                total      |-> Cardinality(listed)])

----------------------------------------------------------------------------
(* The site: requests arrive at any time and are served concurrently       *)

MaxRequests == 3
MaxDays == 2

\* the UTC days new Date() can fall on; a handler that reads the date twice
\* reads no earlier day the second time
Days == 1..MaxDays

StoreEvent(fn, httpMethod, parses, body) ==
  [fn |-> fn, httpMethod |-> httpMethod, parses |-> parses, body |-> body]

SaleBody(inventoryId, soldPrice, soldDate, actualFees) ==
  [inventoryId |-> inventoryId, soldPrice |-> soldPrice,
   soldDate |-> soldDate, actualFees |-> actualFees]

RecordSaleBodies ==
  { SaleBody(Some(1), Some(7500), Undefined, Undefined),
    SaleBody(Some(1), Some(1650), Some(1), Undefined),
    SaleBody(Some(2), Some(7500), Undefined, Some(1000)),
    SaleBody(Undefined, Some(7500), Undefined, Undefined),
    SaleBody(Some(1), Undefined, Some(1), Undefined) }

RecordSaleEvents ==
  {StoreEvent("record-sale", "POST", TRUE, b) : b \in RecordSaleBodies}
  \cup
  {StoreEvent("record-sale", m, FALSE, EmptyBody) : m \in {"OPTIONS", "GET", "POST"}}

PutBody(id, purchasePrice, sold) ==
  [id |-> id, purchasePrice |-> purchasePrice, sold |-> sold]

InventoryEvents ==
  {StoreEvent("inventory", "POST", TRUE, b) :
     b \in {[cardId |-> Some("c1"), purchasePrice |-> Some(5000)],
            [cardId |-> Undefined, purchasePrice |-> Some(5000)],
            [cardId |-> Some("c1"), purchasePrice |-> Undefined]}}
  \cup
  {StoreEvent("inventory", "PUT", TRUE, b) :
     b \in {PutBody(Undefined, Some(1000), Undefined),
            PutBody(Some(1), Some(1000), Undefined),
            PutBody(Some(1), Undefined, Some(TRUE)),
            PutBody(Some(1), Undefined, Some(FALSE))}}
  \cup
  {StoreEvent("inventory", "DELETE", TRUE, [id |-> i]) : i \in {Undefined, Some(1)}}
  \cup
  {StoreEvent("inventory", "GET", TRUE, [status |-> s]) : s \in {Some("available")}}
  \cup
  {StoreEvent("inventory", m, FALSE, EmptyBody) : m \in {"OPTIONS", "PATCH", "PUT"}}

StoreEvents == RecordSaleEvents \cup InventoryEvents

\* the items earlier POST requests have left in the store
SeedIds == {1, 2}

SeedInventories ==
  {[id \in ids |-> NewItem(id, "c1", 5000)] : ids \in {{}, {1}, SeedIds}}

\* the id made for the n-th request: `inv_...` and `sale_...` ids are unique
FreshId(n) == Cardinality(SeedIds) + n

validate(event) ==
  IF event.fn = "record-sale" THEN recordSaleValidate(event)
  ELSE inventoryValidate(event)

FirstAwait(event) ==
  IF event.fn = "inventory" /\ event.httpMethod = "POST" THEN "callApi"
  ELSE "getInventory"

\* the handler runs up to its first await
Started(pr, response) ==
  IF response # NoResponse THEN Finished(pr, response)
  ELSE [pr EXCEPT !.pc = FirstAwait(pr.event)]

InitStore ==
  /\ calcReq = IdleEvent /\ calcResp = NoResponse
  /\ dealsReq = IdleEvent /\ dealsResp = NoResponse
  /\ catalog = NoCatalog
  /\ CardsIdle
  /\ apiCalls = <<>>
  /\ inventory \in SeedInventories
  /\ sales = EmptyStore
  /\ served = 0
  /\ proc = [p \in Procs |-> IdleProc]

handlerVars ==
  <<calcReq, calcResp, dealsReq, catalog, dealsResp, cardsReq, cardsResp>>

At(p, fn, httpMethod, pc) ==
  /\ proc[p].pc = pc
  /\ proc[p].event.fn = fn
  /\ proc[p].event.httpMethod = httpMethod

Receive(p) ==
  /\ proc[p].pc \in {"idle", "done"}
  /\ served < MaxRequests
  /\ served' = served + 1
  /\ \E event \in StoreEvents :
       proc' = [proc EXCEPT ![p] =
                  Started([IdleProc EXCEPT !.event = event, !.rid = FreshId(served + 1)],
                          validate(event))]
  /\ UNCHANGED <<handlerVars, apiCalls, inventory, sales>>

\* today is a day new Date() can give after the handler put its first reading
\* into updatedItem.soldDate
NotEarlier(today, body, updatedItem) ==
  body.soldDate # Undefined \/ today >= updatedItem.soldDate[1]

RecordSaleGetInventory(p) ==
  /\ At(p, "record-sale", "POST", "getInventory")
  /\ \E readOk \in BOOLEAN, today \in Days :
       proc' = [proc EXCEPT ![p] =
                  recordSaleCheck(proc[p], getAllInventory(readOk),
                                  proc[p].event.body.inventoryId[1], today)]
  /\ UNCHANGED <<handlerVars, apiCalls, inventory, sales, served>>

RecordSaleSaveInventory(p) ==
  /\ At(p, "record-sale", "POST", "saveInventory")
  /\ \/ /\ saveInventory(proc[p].inventoryData)
        /\ proc' = [proc EXCEPT ![p].pc = "getSales"]
     \/ /\ UNCHANGED inventory
        /\ proc' = [proc EXCEPT ![p] =
                      Finished(proc[p], Failure(500, "Failed to record sale"))]
  /\ UNCHANGED <<handlerVars, apiCalls, sales, served>>

RecordSaleGetSales(p) ==
  /\ At(p, "record-sale", "POST", "getSales")
  /\ \E readOk \in BOOLEAN, today \in Days :
       /\ NotEarlier(today, proc[p].event.body,
                     proc[p].inventoryData[proc[p].event.body.inventoryId[1]])
       /\ proc' = [proc EXCEPT
                  ![p].pc = "saveSales",
                  ![p].salesData =
                     Put(getAllSales(readOk), proc[p].rid,
                         SaleRecord(proc[p].rid,
                                    proc[p].event.body.inventoryId[1],
                                    proc[p].inventoryData[proc[p].event.body.inventoryId[1]],
                                    SoldDateOr(proc[p].event.body, today)))]
  /\ UNCHANGED <<handlerVars, apiCalls, inventory, sales, served>>

RecordSaleSaveSales(p) ==
  /\ At(p, "record-sale", "POST", "saveSales")
  /\ \/ /\ saveSales(proc[p].salesData)
        /\ proc' = [proc EXCEPT ![p] =
                      SaleRecorded(proc[p], proc[p].event.body.inventoryId[1])]
     \/ /\ UNCHANGED sales
        /\ proc' = [proc EXCEPT ![p] =
                      Finished(proc[p], Failure(500, "Failed to record sale"))]
  /\ UNCHANGED <<handlerVars, apiCalls, inventory, served>>

InventoryGet(p) ==
  /\ At(p, "inventory", "GET", "getInventory")
  /\ \E readOk \in BOOLEAN :
       proc' = [proc EXCEPT ![p] =
                  handleGetList(proc[p], getAllInventory(readOk),
                                Listed(getAllInventory(readOk),
                                       proc[p].event.body.status))]
  /\ UNCHANGED <<handlerVars, apiCalls, inventory, sales, served>>

\* callSportsCardsProAPI('/api/product', { id: cardId }) answers or throws
PostCallApi(p) ==
  /\ At(p, "inventory", "POST", "callApi")
  /\ apiCalls' = Append(apiCalls, [path |-> "/api/product",
                                   arg  |-> proc[p].event.body.cardId[1]])
  /\ \/ proc' = [proc EXCEPT ![p].pc = "getInventory"]
     \/ proc' = [proc EXCEPT ![p] =
                   Finished(proc[p], Failure(400, "Failed to fetch card details"))]
  /\ UNCHANGED <<handlerVars, inventory, sales, served>>

PostGetInventory(p) ==
  /\ At(p, "inventory", "POST", "getInventory")
  /\ \E readOk \in BOOLEAN :
       proc' = [proc EXCEPT
                  ![p].pc = "saveInventory",
                  ![p].inventoryData =
                     Put(getAllInventory(readOk), proc[p].rid,
                         NewItem(proc[p].rid, proc[p].event.body.cardId[1],
                                 DollarsToCents(proc[p].event.body.purchasePrice[1])))]
  /\ UNCHANGED <<handlerVars, apiCalls, inventory, sales, served>>

PostSave(p) ==
  /\ At(p, "inventory", "POST", "saveInventory")
  /\ \/ /\ saveInventory(proc[p].inventoryData)
        /\ proc' = [proc EXCEPT ![p] =
                      Finished(proc[p], [statusCode |-> 201, success |-> TRUE,
                                         item |-> proc[p].inventoryData[proc[p].rid]])]
     \/ /\ UNCHANGED inventory
        /\ proc' = [proc EXCEPT ![p] =
                      Finished(proc[p], Failure(500, "Internal server error"))]
  /\ UNCHANGED <<handlerVars, apiCalls, sales, served>>

PutGetInventory(p) ==
  /\ At(p, "inventory", "PUT", "getInventory")
  /\ \E readOk \in BOOLEAN :
       proc' = [proc EXCEPT ![p] =
                  handlePutUpdate(proc[p], getAllInventory(readOk),
                                  proc[p].event.body.id[1])]
  /\ UNCHANGED <<handlerVars, apiCalls, inventory, sales, served>>

PutSave(p) ==
  /\ At(p, "inventory", "PUT", "saveInventory")
  /\ \/ /\ saveInventory(proc[p].inventoryData)
        /\ proc' = [proc EXCEPT ![p] =
                      Finished(proc[p],
                               [statusCode |-> 200, success |-> TRUE,
                                item |-> proc[p].inventoryData[proc[p].event.body.id[1]]])]
     \/ /\ UNCHANGED inventory
        /\ proc' = [proc EXCEPT ![p] =
                      Finished(proc[p], Failure(500, "Internal server error"))]
  /\ UNCHANGED <<handlerVars, apiCalls, sales, served>>

DeleteGetInventory(p) ==
  /\ At(p, "inventory", "DELETE", "getInventory")
  /\ \E readOk \in BOOLEAN :
       proc' = [proc EXCEPT ![p] =
                  handleDeleteRemove(proc[p], getAllInventory(readOk),
                                     proc[p].event.body.id[1])]
  /\ UNCHANGED <<handlerVars, apiCalls, inventory, sales, served>>

DeleteSave(p) ==
  /\ At(p, "inventory", "DELETE", "saveInventory")
  /\ \/ /\ saveInventory(proc[p].inventoryData)
        /\ proc' = [proc EXCEPT ![p] =
                      Finished(proc[p], [statusCode |-> 200, success |-> TRUE,
                                         message |-> "Inventory item deleted"])]
     \/ /\ UNCHANGED inventory
        /\ proc' = [proc EXCEPT ![p] =
                      Finished(proc[p], Failure(500, "Internal server error"))]
  /\ UNCHANGED <<handlerVars, apiCalls, sales, served>>

Step(p) ==
  \/ RecordSaleGetInventory(p)
  \/ RecordSaleSaveInventory(p)
  \/ RecordSaleGetSales(p)
  \/ RecordSaleSaveSales(p)
  \/ InventoryGet(p)
  \/ PostCallApi(p)
  \/ PostGetInventory(p)
  \/ PostSave(p)
  \/ PutGetInventory(p)
  \/ PutSave(p)
  \/ DeleteGetInventory(p)
  \/ DeleteSave(p)

\* requests served one after another
NextStore == Receive("a") \/ Step("a")

SpecStore == InitStore /\ [][NextStore]_vars

ProcNumber == [a |-> 1, b |-> 2]

\* two requests arrive together and are served concurrently
InitRace ==
  /\ calcReq = IdleEvent /\ calcResp = NoResponse
  /\ dealsReq = IdleEvent /\ dealsResp = NoResponse
  /\ catalog = NoCatalog
  /\ CardsIdle
  /\ apiCalls = <<>>
  /\ inventory \in SeedInventories
  /\ sales = EmptyStore
  /\ served = Cardinality(Procs)
  /\ \E events \in [Procs -> StoreEvents] :
       proc = [p \in Procs |->
                 Started([IdleProc EXCEPT !.event = events[p],
                                          !.rid = FreshId(ProcNumber[p])],
                         validate(events[p]))]

NextRace == \E p \in Procs : Step(p)

SpecRace == InitRace /\ [][NextRace]_vars

\* a request to calculate-profit, to search-cards or get-card, or a series of
\* requests to record-sale and inventory
InitValidation == InitCalc \/ InitCards \/ InitStore

\* the store functions serve requests when this run is theirs
StoreRun == calcReq = IdleEvent /\ cardsReq = IdleEvent

NextValidation == NextCalc \/ NextCards \/ (StoreRun /\ NextStore)

SpecValidation == InitValidation /\ [][NextValidation]_vars

\* a request to search-cards or get-card, or to find-deals
InitSearch == InitCards \/ InitDeals

NextSearch == NextCards \/ NextDeals

SpecSearch == InitSearch /\ [][NextSearch]_vars

----------------------------------------------------------------------------
(* Properties of record-sale and inventory                                 *)

\* process p has answered a record-sale request with success
SaleDone(p) ==
  /\ proc[p].pc = "done"
  /\ proc[p].event.fn = "record-sale"
  /\ proc[p].event.httpMethod = "POST"
  /\ proc[p].response.statusCode = 200

\* the sale's fee, net profit and ROI are those of the calculator's breakdown
FiguresOf(sale, updatedItem, calculation) ==
  /\ sale.ebayFeesCents =
       calculation.ebayFeeCents + calculation.ebayTransactionFeeCents
  /\ sale.netProfitCents = calculation.netProfitCents
  /\ sale.roi = calculation.roiHundredths
  /\ updatedItem.ebayFeesCents = Some(sale.ebayFeesCents)
  /\ updatedItem.netProfitCents = Some(sale.netProfitCents)
  /\ updatedItem.roi = Some(sale.roi)

\* C12: when record-sale finalizes an unsold item at sale price s without
\* actual fees, the fee, net profit and ROI on the sale record and on the
\* inventory record are those of calculateProfit(item.purchasePriceCents, s)
\* with the default shipping and no other costs.
C12_SaleFiguresFromCalculator ==
  \A p \in Procs :
     (SaleDone(p) /\ proc[p].event.body.actualFees = Undefined)
       => FiguresOf(proc[p].response.sale, proc[p].response.updatedItem,
                    calculateProfit(proc[p].response.sale.purchasePriceCents,
                                    proc[p].response.sale.soldPriceCents,
                                    DEFAULT_SHIPPING_COST_CENTS, 0))

\* the item a record-sale request in flight names is in the store, sold
TargetSold(p) ==
  /\ proc[p].event.body.inventoryId[1] \in DOMAIN inventory
  /\ inventory[proc[p].event.body.inventoryId[1]].sold

\* C13: a record-sale request for an item whose sold flag is true is answered
\* with a failure in the step that reads the inventory, and that step leaves
\* the inventory store and the sales store as they were.
C13_AlreadySoldRejected ==
  [][\A p \in Procs :
       (At(p, "record-sale", "POST", "getInventory") /\ TargetSold(p)
          /\ proc'[p] # proc[p])
         => /\ proc'[p].pc = "done"
            /\ proc'[p].response.statusCode \in {400, 404}
            /\ ~proc'[p].response.success
            /\ inventory' = inventory
            /\ sales' = sales]_vars

C13_Witness ==
  /\ proc["a"].pc = "done"
  /\ proc["a"].event.fn = "record-sale"
  /\ proc["a"].response = Failure(400, "Item already sold")
  /\ inventory[1].sold
  /\ inventory[1].soldPriceCents = Some(7500)
  /\ \E k \in DOMAIN sales : sales[k].inventoryId = 1

\* both processes serve a record-sale request that names item i
BothSell(i) ==
  \A p \in Procs :
     /\ proc[p].event.fn = "record-sale"
     /\ proc[p].event.httpMethod = "POST"
     /\ proc[p].event.parses
     /\ proc[p].event.body.inventoryId = Some(i)

SalesOf(i) == {k \in DOMAIN sales : sales[k].inventoryId = i}

\* C14: of two concurrent record-sale requests against the same unsold item
\* at most one succeeds, and at most one sale record for the item is created.
C14_AtMostOneFinalization ==
  \A i \in SeedIds :
     BothSell(i)
       => /\ ~(SaleDone("a") /\ SaleDone("b"))
          /\ Cardinality(SalesOf(i)) <= 1

\* item i is marked sold exactly if the sales store holds a record for it
SoldWithRecord(i) ==
  (i \in DOMAIN inventory /\ inventory[i].sold) <=> (SalesOf(i) # {})

\* this step ends p's record-sale request in a failure that a store operation
\* caused: a write that threw, or a read that threw and hid the item
FailsOnStore(p) ==
  /\ proc[p].pc \in {"getInventory", "saveInventory", "getSales", "saveSales"}
  /\ proc[p].event.fn = "record-sale"
  /\ proc'[p].pc = "done"
  /\ ~proc'[p].response.success
  /\ proc[p].pc = "getInventory"
       => /\ proc'[p].response.statusCode = 404
          /\ proc[p].event.body.inventoryId[1] \in DOMAIN inventory

\* C15: after a record-sale request has failed because a store read or a
\* store write failed, the item is either marked sold with a sale record for
\* it in the sales store, or unsold with no sale record for it.
C15_NoPartialSale ==
  [][\A p \in Procs :
       FailsOnStore(p) => SoldWithRecord(proc[p].event.body.inventoryId[1])']_vars

\* the sale record is a copy of the item's figures and sale date
SnapshotOf(sale, item) ==
  /\ sale.purchasePriceCents = item.purchasePriceCents
  /\ item.soldPriceCents = Some(sale.soldPriceCents)
  /\ item.ebayFeesCents = Some(sale.ebayFeesCents)
  /\ item.netProfitCents = Some(sale.netProfitCents)
  /\ item.roi = Some(sale.roi)
  /\ item.soldDate = Some(sale.soldDate)

\* C16: right after a successful record-sale the created sale record has the
\* purchasePriceCents, soldPriceCents, ebayFeesCents, netProfitCents, roi and
\* soldDate of the updated inventory record.
C16_SaleIsSnapshot ==
  \A p \in Procs :
     SaleDone(p)
       => /\ proc[p].rid \in DOMAIN sales
          /\ proc[p].event.body.inventoryId[1] \in DOMAIN inventory
          /\ SnapshotOf(sales[proc[p].rid],
                        inventory[proc[p].event.body.inventoryId[1]])

SaleFields(item) ==
  {item.soldDate, item.soldPriceCents, item.ebayFeesCents, item.netProfitCents}

\* C17: in every inventory state an item is sold exactly if its soldDate,
\* soldPriceCents, ebayFeesCents and netProfitCents are all populated, and
\* the four are populated together or not at all.
C17_SoldIffSaleFields ==
  \A i \in DOMAIN inventory :
     /\ inventory[i].sold <=> (Undefined \notin SaleFields(inventory[i]))
     /\ ~inventory[i].sold <=> (SaleFields(inventory[i]) = {Undefined})

\* C18: a sale record that is in the sales store stays there, with every
\* field unchanged, whatever request is served next and whether or not a store
\* read fails while it is served.
C18_SaleRecordsKept ==
  [][\A k \in DOMAIN sales : k \in DOMAIN sales' /\ sales'[k] = sales[k]]_vars

----------------------------------------------------------------------------
(* Validation of requests                                                  *)

\* the body of the request lacks a price or an id the function requires
LacksRequired(event) ==
  \/ /\ event.fn = "record-sale" /\ event.httpMethod = "POST"
     /\ (event.body.inventoryId = Undefined \/ event.body.soldPrice = Undefined)
  \/ /\ event.fn = "inventory" /\ event.httpMethod = "POST"
     /\ (event.body.cardId = Undefined \/ event.body.purchasePrice = Undefined)
  \/ /\ event.fn = "inventory" /\ event.httpMethod \in {"PUT", "DELETE"}
     /\ event.body.id = Undefined

NothingTouched ==
  /\ apiCalls = <<>>
  /\ inventory = EmptyStore
  /\ sales = EmptyStore

\* C19: a request without a required price or id is answered 400 before any
\* catalog call or store write: calculate-profit without purchasePriceCents
\* or salePriceCents, get-card without id, and record-sale without
\* inventoryId or soldPrice, inventory POST without cardId or purchasePrice
\* and inventory PUT or DELETE without id, which end in the step that receives
\* them and never reach an await.
C19_MissingFieldRejected ==
  /\ (calcReq.httpMethod = "POST" /\ calcReq.parses
        /\ (calcReq.body.purchasePriceCents = Undefined
              \/ calcReq.body.salePriceCents = Undefined)
        /\ calcResp # NoResponse)
       => /\ calcResp.statusCode = 400
          /\ ~calcResp.success
          /\ NothingTouched
  /\ (cardsReq.httpMethod = "GET" /\ cardsReq.fn = "get-card"
        /\ cardsReq.query.id = Undefined
        /\ cardsResp # NoResponse)
       => /\ cardsResp.statusCode = 400
          /\ ~cardsResp.success
          /\ NothingTouched
  /\ \A p \in Procs :
        (proc[p].pc # "idle" /\ proc[p].event.parses /\ LacksRequired(proc[p].event))
          => /\ proc[p].pc = "done"
             /\ proc[p].response.statusCode = 400
             /\ ~proc[p].response.success

C19_Witness ==
  /\ proc["a"].pc = "done"
  /\ proc["a"].event = StoreEvent("record-sale", "POST", TRUE,
                                  SaleBody(Some(1), Undefined, Some(1), Undefined))
  /\ proc["a"].response = Failure(400, "inventoryId and soldPrice are required")
  /\ 1 \in DOMAIN inventory
  /\ ~inventory[1].sold

\* C20: a request without a search query is answered 400 by search-cards and
\* by find-deals, and no catalog call is made for it.
C20_MissingQueryRejected ==
  /\ (cardsReq.httpMethod = "GET" /\ cardsReq.fn = "search-cards"
        /\ cardsReq.query.q = Undefined
        /\ cardsResp # NoResponse)
       => /\ cardsResp.statusCode = 400
          /\ apiCalls = <<>>
  /\ (dealsReq.httpMethod = "POST" /\ dealsReq.parses
        /\ dealsReq.body.query = Undefined
        /\ dealsResp # NoResponse)
       => /\ dealsResp.statusCode = 400
          /\ apiCalls = <<>>

----------------------------------------------------------------------------
(* reports function                                                        *)

\* the 'YYYY-MM' a date string starts with: day 1 is the last day of month 1,
\* every later month has two days
MonthOf(day) == (day + 1) \div 2

reportsValidate(event) ==
  IF event.httpMethod = "OPTIONS" THEN [statusCode |-> 200, body |-> ""]
  ELSE IF event.httpMethod # "GET" THEN Failure(405, "Method not allowed")
  ELSE NoResponse

\* month || new Date().toISOString().slice(0, 7)
TargetMonth(query, today) ==
  IF query.month # Undefined THEN query.month[1] ELSE MonthOf(today)

\* Object.values(salesData) from the key k on: the keys in the order in which
\* they were made
RECURSIVE ObjectValues(_, _)
ObjectValues(salesData, k) ==
  IF \A j \in DOMAIN salesData : j < k THEN <<>>
  ELSE IF k \in DOMAIN salesData
  THEN <<salesData[k]>> \o ObjectValues(salesData, k + 1)
  ELSE ObjectValues(salesData, k + 1)

\* allSales.filter(sale => sale.soldDate && sale.soldDate.startsWith(targetMonth))
RECURSIVE MonthlySales(_, _, _)
MonthlySales(allSales, i, targetMonth) ==
  IF i > Len(allSales) THEN <<>>
  ELSE IF MonthOf(allSales[i].soldDate) = targetMonth
  THEN <<allSales[i]>> \o MonthlySales(allSales, i + 1, targetMonth)
  ELSE MonthlySales(allSales, i + 1, targetMonth)

NoTotals == [salesCents |-> 0, profitCents |-> 0, costsCents |-> 0]

\* totalSalesCents += ..., totalProfitCents += ..., totalCostsCents += ...
AddSale(totals, sale) ==
  [salesCents  |-> totals.salesCents + sale.soldPriceCents,
   profitCents |-> totals.profitCents + sale.netProfitCents,
   costsCents  |-> totals.costsCents + sale.purchasePriceCents]

\* for (const sale of monthlySales) from the i-th sale on
RECURSIVE SumSales(_, _, _)
SumSales(monthlySales, i, totals) ==
  IF i > Len(monthlySales) THEN totals
  ELSE SumSales(monthlySales, i + 1, AddSale(totals, monthlySales[i]))

\* numberOfSales > 0 ? Math.round(totalProfitCents / numberOfSales) : 0
AverageProfit(totalProfitCents, numberOfSales) ==
  IF numberOfSales > 0 THEN MathRound(FDivInt(totalProfitCents, numberOfSales))
  ELSE 0

\* Math.round((totalProfitCents / goalCents) * 100) for goalCents = 10000
ProgressPercent(totalProfitCents) ==
  MathRound(FMul(FDivInt(totalProfitCents, 10000), Hundred))

\* the members of the report that are totals; topCards and dailyBreakdown,
\* which group the same sales by card and by day, are left out
Report(targetMonth, totals, numberOfSales) ==
  [month              |-> targetMonth,
   totalSalesCents    |-> totals.salesCents,
   totalProfitCents   |-> totals.profitCents,
   totalCostsCents    |-> totals.costsCents,
   numberOfSales      |-> numberOfSales,
   averageProfitCents |-> AverageProfit(totals.profitCents, numberOfSales),
   progressPercent    |-> ProgressPercent(totals.profitCents)]

ReportOfMonth(targetMonth, monthlySales) ==
  Report(targetMonth, SumSales(monthlySales, 1, NoTotals), Len(monthlySales))

\* the response for the sales read
reportsAnswer(salesData, targetMonth) ==
  [statusCode |-> 200, success |-> TRUE,
   report |-> ReportOfMonth(targetMonth,
                            MonthlySales(ObjectValues(salesData, 0), 1, targetMonth))]

MaxSales == 3

\* the sale records record-sale makes for items bought at $50 or $10 and sold
\* at $75 or $16.50 on one of the days
SaleOn(saleId, purchasePriceCents, soldPrice, day) ==
  SaleRecord(saleId, 1,
             MarkSold(NewItem(1, "c1", purchasePriceCents),
                      SaleBody(Some(1), Some(soldPrice), Some(day), Undefined), day),
             day)

SalesStores ==
  UNION {[(FreshId(1))..(FreshId(n)) ->
            {SaleOn(0, pp, sp, day) : pp \in {5000, 1000}, sp \in {7500, 1650},
                                      day \in Days}] : n \in 0..MaxSales}

\* the stored record carries its key as id
Keyed(store) == [k \in DOMAIN store |-> [store[k] EXCEPT !.id = k]]

ReportsEvents ==
  {StoreEvent("reports", "GET", TRUE, [month |-> m]) :
     m \in {Undefined} \cup {Some(MonthOf(d)) : d \in Days}}
  \cup
  {StoreEvent("reports", m, TRUE, [month |-> Undefined]) : m \in {"OPTIONS", "POST"}}

reportsStarted(pr, response) ==
  IF response # NoResponse THEN Finished(pr, response)
  ELSE [pr EXCEPT !.pc = "getSales"]

InitReports ==
  /\ calcReq = IdleEvent /\ calcResp = NoResponse
  /\ dealsReq = IdleEvent /\ dealsResp = NoResponse
  /\ catalog = NoCatalog
  /\ CardsIdle
  /\ apiCalls = <<>>
  /\ inventory = EmptyStore
  /\ \E store \in SalesStores : sales = Keyed(store)
  /\ served = 1
  /\ \E event \in ReportsEvents :
       proc = [p \in Procs |->
                 IF p = "a"
                 THEN reportsStarted([IdleProc EXCEPT !.event = event],
                                     reportsValidate(event))
                 ELSE IdleProc]

\* await getAllSales() and the code around it
ReportsGet(p) ==
  /\ At(p, "reports", "GET", "getSales")
  /\ \E readOk \in BOOLEAN, today \in Days :
       proc' = [proc EXCEPT ![p] =
                  Finished(proc[p],
                           reportsAnswer(getAllSales(readOk),
                                         TargetMonth(proc[p].event.body, today)))]
  /\ UNCHANGED <<handlerVars, apiCalls, inventory, sales, served>>

NextReports == ReportsGet("a")

SpecReports == InitReports /\ [][NextReports]_vars

----------------------------------------------------------------------------
(* Properties of reports                                                   *)

\* the sale records of the store whose soldDate is a day of month m
InMonth(m) == {k \in DOMAIN sales : MonthOf(sales[k].soldDate) = m}

RECURSIVE SumOver(_, _)
SumOver(keys, amount) ==
  IF keys = {} THEN 0
  ELSE LET k == CHOOSE x \in keys : TRUE
       IN  amount[k] + SumOver(keys \ {k}, amount)

\* t / n rounded to the nearest integer, a half rounded up
NearestCent(t, n) == (2 * t + n) \div (2 * n)

\* p has answered a reports request with a report
Reported(p) ==
  /\ proc[p].pc = "done"
  /\ proc[p].event.fn = "reports"
  /\ proc[p].event.httpMethod = "GET"

\* the report is the one of the store's records of its month
ReportMatches(report, keys) ==
  /\ report.numberOfSales = Cardinality(keys)
  /\ report.totalSalesCents = SumOver(keys, [k \in keys |-> sales[k].soldPriceCents])
  /\ report.totalProfitCents = SumOver(keys, [k \in keys |-> sales[k].netProfitCents])
  /\ report.totalCostsCents
       = SumOver(keys, [k \in keys |-> sales[k].purchasePriceCents])
  /\ report.averageProfitCents
       = IF keys = {} THEN 0
         ELSE NearestCent(report.totalProfitCents, Cardinality(keys))

\* C25: the report for month m counts the sale records of the sales store
\* whose soldDate falls in m, its totalSalesCents, totalProfitCents and
\* totalCostsCents are the sums of their soldPriceCents, netProfitCents and
\* purchasePriceCents, and averageProfitCents is totalProfitCents /
\* numberOfSales rounded to the nearest cent, or 0 when there is none.
C25_ReportTotals ==
  \A p \in Procs :
     (Reported(p) /\ proc[p].response.statusCode = 200)
       => ReportMatches(proc[p].response.report,
                        InMonth(proc[p].response.report.month))

----------------------------------------------------------------------------
(* Failure kinds and the reach of a request                                *)

\* the id a record-sale, PUT or DELETE request in flight names
NamedId(p) ==
  IF proc[p].event.fn = "record-sale" THEN proc[p].event.body.inventoryId[1]
  ELSE proc[p].event.body.id[1]

\* p reads the inventory for a request that names an item
ReadsFor(p) ==
  /\ proc[p].pc = "getInventory"
  /\ \/ proc[p].event.fn = "record-sale"
     \/ proc[p].event.httpMethod \in {"PUT", "DELETE"}
  /\ proc'[p] # proc[p]

\* the item is missing, or the request is a record-sale and the item is sold
InConflict(p) ==
  \/ NamedId(p) \notin DOMAIN inventory
  \/ proc[p].event.fn = "record-sale" /\ inventory[NamedId(p)].sold

\* C22: a record-sale for an item that is already sold or does not exist, and
\* an inventory PUT or DELETE for an id that does not exist, end in the step
\* that reads the inventory with a failure of status 404 or 409, which is
\* neither the 400 of validation errors nor the 500 of upstream errors, and
\* that step leaves both stores as they were.
C22_ConflictKindDistinct ==
  [][\A p \in Procs :
       (ReadsFor(p) /\ InConflict(p))
         => /\ proc'[p].pc = "done"
            /\ ~proc'[p].response.success
            /\ proc'[p].response.statusCode \in {404, 409}
            /\ inventory' = inventory
            /\ sales' = sales]_vars

\* the kinds of validation errors and of not-found and conflict errors
OtherKinds == {400, 404, 409}

\* C21: in record-sale and inventory, a catalog call that fails and a store
\* read that fails end the request with a failure whose status is none of
\* 400, 404 and 409, and the request writes nothing: an inventory POST whose
\* catalog call throws is answered with such a failure; a record-sale, PUT or
\* DELETE naming an item that is in the store is never answered 404, which
\* is what a read that threw would give; and a POST goes on to its write
\* only with a copy that holds every item of the store.
C21_UpstreamFailureDistinct ==
  [][\A p \in Procs :
       /\ (At(p, "inventory", "POST", "callApi") /\ proc'[p].pc = "done")
            => /\ ~proc'[p].response.success
               /\ proc'[p].response.statusCode \notin OtherKinds
               /\ inventory' = inventory
               /\ sales' = sales
       /\ (ReadsFor(p) /\ NamedId(p) \in DOMAIN inventory /\ proc'[p].pc = "done")
            => proc'[p].response.statusCode # 404
       /\ (At(p, "inventory", "POST", "getInventory") /\ proc'[p] # proc[p])
            => \A i \in DOMAIN inventory : i \in DOMAIN proc'[p].inventoryData]_vars

\* the one item the request of p is about: the new item of a POST, the named
\* item otherwise
ItemOf(p) ==
  IF proc[p].event.httpMethod = "POST" /\ proc[p].event.fn = "inventory"
  THEN proc[p].rid
  ELSE NamedId(p)

\* C29: a step in which a request writes the inventory store changes at most
\* the item the request is about: every other item is in the store before and
\* after the step, with the same fields.
C29_OtherItemsUntouched ==
  [][\A p \in Procs :
       (proc[p].pc = "saveInventory" /\ proc'[p] # proc[p])
         => \A i \in (DOMAIN inventory \cup DOMAIN inventory') \ {ItemOf(p)} :
              /\ i \in DOMAIN inventory
              /\ i \in DOMAIN inventory'
              /\ inventory'[i] = inventory[i]]_vars

\* C30: when the requests are served one after another, no two sale records
\* of the sales store are for the same inventoryId.
C30_OneSaleRecordPerItem ==
  \A j, k \in DOMAIN sales :
     sales[j].inventoryId = sales[k].inventoryId => j = k

----------------------------------------------------------------------------
(* calculateProfit called twice                                            *)

\* a calculate-profit request for the pair (recommended buy price, market
\* value) and a find-deals request whose catalog answer holds one candidate
\* of that market value: both call calculateProfit with the same arguments.
\* The stores hold what earlier requests left.
InitTwice ==
  /\ \E m \in MarketValues :
       /\ calcReq = [httpMethod |-> "POST", parses |-> TRUE,
                     body |-> [purchasePriceCents |-> Some(RecommendedBuyPrice(m)),
                               salePriceCents     |-> Some(m),
                               shippingCostCents  |-> Undefined,
                               otherCostsCents    |-> Undefined]]
       /\ catalog = [outcome |-> "ok", hasProducts |-> TRUE,
                     products |-> <<Product(1, Undefined, Raw("num", 100 * m), Absent)>>]
  /\ dealsReq = [httpMethod |-> "POST", parses |-> TRUE,
                 body |-> [query |-> Some("mantle"), minRoi |-> Some(-10000000),
                           maxPrice |-> Undefined, genre |-> Undefined]]
  /\ calcResp = NoResponse
  /\ dealsResp = NoResponse
  /\ apiCalls = <<>>
  /\ CardsIdle
  /\ inventory \in SeedInventories
  /\ sales = EmptyStore
  /\ served = 0
  /\ proc = [p \in Procs |-> IdleProc]

NextTwice == CalculateProfit \/ FindDeals

SpecTwice == InitTwice /\ [][NextTwice]_vars

BothAnswered == calcResp # NoResponse /\ dealsResp # NoResponse

====
